---- MODULE Spec2Model ----
(***************************************************************************)
(* Products.Relations, components/types.py: PortalTypeConstraint and       *)
(* InterfaceConstraint.  A constraint holds two configured lists and is    *)
(* both a vocabulary provider (makeVocabulary, getSearchTerms) and a       *)
(* validator (validateConnected, validateDisconnected).                    *)
(*                                                                         *)
(* State: the constraint object (self), the UID catalog's content, and the *)
(* record of the last call made on the constraint: its arguments, what it  *)
(* returned, what it raised, and the calls it made to its collaborators    *)
(* (catalog queries, capability lookups).  `first` remembers the first     *)
(* call of a behaviour and `later` tells that another call followed it,    *)
(* for the specification that compares repeats.                            *)
(***************************************************************************)
EXTENDS Integers, Sequences, FiniteSets, TLC

VARIABLES self, catalog, call, first, later

vars == <<self, catalog, call, first, later>>

----------------------------------------------------------------------------
(* Bounds *)

MaxAllowed == 2       \* longest configured allow-list
MaxTargets == 3       \* longest candidate sequence passed to makeVocabulary
MaxCatalog == 2       \* most objects indexed in the UID catalog
MaxChain == 2         \* number of distinct chain values
RepeatMaxTargets == 1 \* longest candidate sequence under SpecRepeat
RepeatMaxCatalog == 2 \* number of indexed objects under SpecRepeat

----------------------------------------------------------------------------
(* Universe *)

\* portal_type identifiers an object may carry; any string is a legal id
Kinds == {"Document", "Image", "spam"}

\* order in which the type registry lists the kinds
KindOrder == <<"Document", "Image", "spam">>

Interfaces == {"IFoo", "IBar"}

\* which interfaces each kind implements; nothing implements IFoo
implementedBy ==
  [k \in Kinds |-> IF k \in {"Document", "Image"} THEN {"IBar"} ELSE {}]

\* content objects / brains: only portal_type is read by the constraint
Objects == {[UID |-> 1, portal_type |-> "Document"],
            [UID |-> 2, portal_type |-> "Image"],
            [UID |-> 3, portal_type |-> "spam"]}

\* order in which the UID catalog returns what it indexes
IndexOrder == <<[UID |-> 1, portal_type |-> "Document"],
                [UID |-> 2, portal_type |-> "Image"],
                [UID |-> 3, portal_type |-> "spam"]>>

References == [sourceBrain : Objects, targetBrain : Objects]

Chains == 1..MaxChain

RulesetTitle == "Ruleset"

SeqsUpTo(S, n) == UNION {[1..k -> S] : k \in 0..n}

InjSeqsUpTo(S, n) ==
  {s \in SeqsUpTo(S, n) : \A i, j \in 1..Len(s) : i # j => s[i] # s[j]}

\* the selections a multi-selection field can hold: at most n of the
\* vocabulary's values, in the vocabulary's order
SelectionsUpTo(order, n) ==
  {s \in InjSeqsUpTo({order[i] : i \in 1..Len(order)}, n) :
     \A i, j \in 1..Len(s) : i < j =>
       \E a, b \in 1..Len(order) : a < b /\ order[a] = s[i] /\ order[b] = s[j]}

\* Python's `x in list`
In(x, list) == \E i \in 1..Len(list) : list[i] = x

\* targets=None versus targets=<a sequence>
NoTargets == [given |-> FALSE, seq |-> <<>>]
Given(s) == [given |-> TRUE, seq |-> s]

----------------------------------------------------------------------------
(* Collaborators *)

\* utils.getPortalTypesByInterfaces: a fresh list of the kinds implementing
\* at least one of the named interfaces
getPortalTypesByInterfaces(allowed) ==
  SelectSeq(KindOrder,
            LAMBDA k : \E i \in 1..Len(allowed) : allowed[i] \in implementedBy[k])

\* the UID catalog called with keyword search terms: every indexed object
\* when there are no terms, else those whose portal_type is among the values
uc(cat, terms) ==
  SelectSeq(cat, LAMBDA o : \A t \in terms : t[1] = "portal_type" => In(o.portal_type, t[2]))

\* brain.makeBrainAggregate: a summary wrapping one catalog hit
makeBrainAggregate(o) ==
  [UID |-> o.UID, portal_type |-> o.portal_type, aggregate |-> TRUE]

----------------------------------------------------------------------------
(* InterfaceConstraint *)

\* variant: the sentinel is not appended
_getPortalTypesByInterfacesNoSentinel(allowed) ==
  getPortalTypesByInterfaces(allowed)

\* the value appended so that the resolved list is never empty
Sentinel == "spam"

_getPortalTypesByInterfaces(allowed) ==
  Append(getPortalTypesByInterfaces(allowed), Sentinel)

getAllowedSourceInterfaces(o) == o.allowedSourceInterfaces

getAllowedTargetInterfaces(o) == o.allowedTargetInterfaces

\* PortalTypeConstraint: the LinesField accessor; InterfaceConstraint: override
getAllowedSourceTypes(o) ==
  IF o.class = "PortalTypeConstraint"
  THEN o.allowedSourceTypes
  ELSE LET asi == getAllowedSourceInterfaces(o)
       IN IF asi # <<>> THEN _getPortalTypesByInterfaces(asi) ELSE <<>>

getAllowedTargetTypes(o) ==
  IF o.class = "PortalTypeConstraint"
  THEN o.allowedTargetTypes
  ELSE LET ati == getAllowedTargetInterfaces(o)
       IN IF ati # <<>> THEN _getPortalTypesByInterfaces(ati) ELSE <<>>

\* the capability lookups one accessor call makes
SourceLookups(o) ==
  IF o.class = "InterfaceConstraint" /\ getAllowedSourceInterfaces(o) # <<>>
  THEN <<getAllowedSourceInterfaces(o)>> ELSE <<>>

TargetLookups(o) ==
  IF o.class = "InterfaceConstraint" /\ getAllowedTargetInterfaces(o) # <<>>
  THEN <<getAllowedTargetInterfaces(o)>> ELSE <<>>

----------------------------------------------------------------------------
(* PortalTypeConstraint *)

\* variant: the portal_type key is set even for an empty list
getSearchTermsAlways(o) ==
  {<<"portal_type", getAllowedTargetTypes(o)>>}

getSearchTerms(o) ==
  LET att == getAllowedTargetTypes(o)
  IN IF att # <<>> THEN {<<"portal_type", att>>} ELSE {}

\* variant: the filter forgets that an empty list allows everything
makeVocabularyNoWildcard(o, cat, source, targets) ==
  LET ast == getAllowedSourceTypes(o)
      att == getAllowedTargetTypes(o)
  IN IF ast # <<>> /\ ~In(source.portal_type, ast)
     THEN [returned |-> <<>>, queries |-> <<>>]
     ELSE IF targets.given
          THEN [returned |-> SelectSeq(targets.seq,
                               LAMBDA t : In(t.portal_type, att)),
                queries |-> <<>>]
          ELSE LET objs == uc(cat, getSearchTerms(o))
               IN [returned |-> [i \in 1..Len(objs) |-> makeBrainAggregate(objs[i])],
                   queries |-> <<getSearchTerms(o)>>]

\* variant: the source is checked on the filter path only
makeVocabularySearchFirst(o, cat, source, targets) ==
  LET ast == getAllowedSourceTypes(o)
      att == getAllowedTargetTypes(o)
  IN IF targets.given
     THEN IF ast # <<>> /\ ~In(source.portal_type, ast)
          THEN [returned |-> <<>>, queries |-> <<>>]
          ELSE [returned |-> SelectSeq(targets.seq,
                               LAMBDA t : att = <<>> \/ In(t.portal_type, att)),
                queries |-> <<>>]
     ELSE LET objs == uc(cat, getSearchTerms(o))
          IN [returned |-> [i \in 1..Len(objs) |-> makeBrainAggregate(objs[i])],
              queries |-> <<getSearchTerms(o)>>]

\* variant: the candidates are filtered by the source list
makeVocabularyFilterBySource(o, cat, source, targets) ==
  LET ast == getAllowedSourceTypes(o)
      att == getAllowedTargetTypes(o)
  IN IF ast # <<>> /\ ~In(source.portal_type, ast)
     THEN [returned |-> <<>>, queries |-> <<>>]
     ELSE IF targets.given
          THEN [returned |-> SelectSeq(targets.seq,
                               LAMBDA t : ast = <<>> \/ In(t.portal_type, ast)),
                queries |-> <<>>]
          ELSE LET objs == uc(cat, getSearchTerms(o))
               IN [returned |-> [i \in 1..Len(objs) |-> makeBrainAggregate(objs[i])],
                   queries |-> <<getSearchTerms(o)>>]

\* result of makeVocabulary: what it returns and the catalog queries it makes
makeVocabulary(o, cat, source, targets) ==
  LET ast == getAllowedSourceTypes(o)
      att == getAllowedTargetTypes(o)
  IN IF ast # <<>> /\ ~In(source.portal_type, ast)
     THEN [returned |-> <<>>, queries |-> <<>>]
     ELSE IF targets.given
          THEN [returned |-> SelectSeq(targets.seq,
                               LAMBDA t : att = <<>> \/ In(t.portal_type, att)),
                queries |-> <<>>]
          ELSE LET objs == uc(cat, getSearchTerms(o))
               IN [returned |-> [i \in 1..Len(objs) |-> makeBrainAggregate(objs[i])],
                   queries |-> <<getSearchTerms(o)>>]

\* capability lookups made by one makeVocabulary call, in order
makeVocabularyLookups(o, source, targets) ==
  LET ast == getAllowedSourceTypes(o)
  IN SourceLookups(o) \o TargetLookups(o) \o
     (IF (ast # <<>> /\ ~In(source.portal_type, ast)) \/ targets.given
      THEN <<>> ELSE TargetLookups(o))

ValidationException(message, reference, chain) ==
  [type |-> "ValidationException", message |-> message,
   reference |-> reference, chain |-> chain]

\* variant: the target is checked only when the source is unrestricted
validateConnectedElif(o, reference, chain) ==
  LET ast == getAllowedSourceTypes(o)
      att == getAllowedTargetTypes(o)
      st == reference.sourceBrain.portal_type
      tt == reference.targetBrain.portal_type
  IN IF ast # <<>>
     THEN IF ~In(st, ast)
          THEN <<ValidationException(
                   <<"Source type ", st, " not allowed for '", RulesetTitle, "'.">>,
                   reference, chain)>>
          ELSE <<>>
     ELSE IF att # <<>> /\ ~In(tt, att)
          THEN <<ValidationException(
                   <<"Target type ", tt, " not allowed for '", RulesetTitle, "'.">>,
                   reference, chain)>>
          ELSE <<>>

\* variant: the target is checked before the source
validateConnectedTargetFirst(o, reference, chain) ==
  LET ast == getAllowedSourceTypes(o)
      att == getAllowedTargetTypes(o)
      st == reference.sourceBrain.portal_type
      tt == reference.targetBrain.portal_type
  IN IF att # <<>> /\ ~In(tt, att)
     THEN <<ValidationException(
              <<"Target type ", tt, " not allowed for '", RulesetTitle, "'.">>,
              reference, chain)>>
     ELSE IF ast # <<>> /\ ~In(st, ast)
          THEN <<ValidationException(
                   <<"Source type ", st, " not allowed for '", RulesetTitle, "'.">>,
                   reference, chain)>>
          ELSE <<>>

\* the exceptions validateConnected raises (none, or the one that aborts it)
validateConnected(o, reference, chain) ==
  LET ast == getAllowedSourceTypes(o)
      att == getAllowedTargetTypes(o)
      st == reference.sourceBrain.portal_type
      tt == reference.targetBrain.portal_type
  IN IF ast # <<>> /\ ~In(st, ast)
     THEN <<ValidationException(
              <<"Source type ", st, " not allowed for '", RulesetTitle, "'.">>,
              reference, chain)>>
     ELSE IF att # <<>> /\ ~In(tt, att)
          THEN <<ValidationException(
                   <<"Target type ", tt, " not allowed for '", RulesetTitle, "'.">>,
                   reference, chain)>>
          ELSE <<>>

\* variant: disconnecting is validated like connecting
validateDisconnectedAsConnected(o, reference, chain) ==
  validateConnected(o, reference, chain)

validateDisconnected(o, reference, chain) == <<>>

----------------------------------------------------------------------------
(* State machine *)

NoObject == [UID |-> 0, portal_type |-> ""]
NoReference == [sourceBrain |-> NoObject, targetBrain |-> NoObject]

NoCall ==
  [op |-> "none", source |-> NoObject, targets |-> NoTargets,
   reference |-> NoReference, chain |-> 0,
   returned |-> <<>>, terms |-> {}, raised |-> <<>>,
   queries |-> <<>>, lookups |-> <<>>]

Configurations ==
  {[class |-> "PortalTypeConstraint",
    allowedSourceTypes |-> s, allowedTargetTypes |-> t,
    allowedSourceInterfaces |-> <<>>, allowedTargetInterfaces |-> <<>>] :
      s \in SelectionsUpTo(KindOrder, MaxAllowed),
      t \in SelectionsUpTo(KindOrder, MaxAllowed)}
  \cup
  {[class |-> "InterfaceConstraint",
    allowedSourceTypes |-> <<>>, allowedTargetTypes |-> <<>>,
    allowedSourceInterfaces |-> s, allowedTargetInterfaces |-> t] :
      s \in InjSeqsUpTo(Interfaces, MaxAllowed),
      t \in InjSeqsUpTo(Interfaces, MaxAllowed)}

Init ==
  /\ self \in Configurations
  /\ catalog \in InjSeqsUpTo(Objects, MaxCatalog)
  /\ call = NoCall
  /\ first = NoCall
  /\ later = FALSE

InitRepeat ==
  /\ self \in Configurations
  /\ catalog = SubSeq(IndexOrder, 1,
                      IF RepeatMaxCatalog < Len(IndexOrder)
                      THEN RepeatMaxCatalog ELSE Len(IndexOrder))
  /\ call = NoCall
  /\ first = NoCall
  /\ later = FALSE

\* variant: the resolved target kinds are stored back on the object
DoMakeVocabularyStoring(source, targets) ==
  LET r == makeVocabulary(self, catalog, source, targets)
  IN /\ call.op = "none"
     /\ call' = [NoCall EXCEPT !.op = "makeVocabulary",
                               !.source = source, !.targets = targets,
                               !.returned = r.returned, !.queries = r.queries,
                               !.lookups = makeVocabularyLookups(self, source, targets)]
     /\ self' = [self EXCEPT !.allowedTargetTypes = getAllowedTargetTypes(self)]
     /\ UNCHANGED catalog

DoMakeVocabulary(source, targets) ==
  LET r == makeVocabulary(self, catalog, source, targets)
  IN /\ call.op = "none"
     /\ call' = [NoCall EXCEPT !.op = "makeVocabulary",
                               !.source = source, !.targets = targets,
                               !.returned = r.returned, !.queries = r.queries,
                               !.lookups = makeVocabularyLookups(self, source, targets)]
     /\ UNCHANGED <<self, catalog>>

DoGetSearchTerms ==
  /\ call.op = "none"
  /\ call' = [NoCall EXCEPT !.op = "getSearchTerms",
                            !.terms = getSearchTerms(self),
                            !.lookups = TargetLookups(self)]
  /\ UNCHANGED <<self, catalog>>

DoValidateConnected(reference, chain) ==
  /\ call.op = "none"
  /\ call' = [NoCall EXCEPT !.op = "validateConnected",
                            !.reference = reference, !.chain = chain,
                            !.raised = validateConnected(self, reference, chain),
                            !.lookups = SourceLookups(self) \o TargetLookups(self)]
  /\ UNCHANGED <<self, catalog>>

DoValidateDisconnected(reference, chain) ==
  /\ call.op = "none"
  /\ call' = [NoCall EXCEPT !.op = "validateDisconnected",
                            !.reference = reference, !.chain = chain,
                            !.raised = validateDisconnected(self, reference, chain)]
  /\ UNCHANGED <<self, catalog>>

DoGetAllowedSourceTypes ==
  /\ call.op = "none"
  /\ call' = [NoCall EXCEPT !.op = "getAllowedSourceTypes",
                            !.returned = getAllowedSourceTypes(self),
                            !.lookups = SourceLookups(self)]
  /\ UNCHANGED <<self, catalog>>

DoGetAllowedTargetTypes ==
  /\ call.op = "none"
  /\ call' = [NoCall EXCEPT !.op = "getAllowedTargetTypes",
                            !.returned = getAllowedTargetTypes(self),
                            !.lookups = TargetLookups(self)]
  /\ UNCHANGED <<self, catalog>>

\* the synchronous call is over: its outcome has gone to the caller
Return ==
  /\ call.op # "none"
  /\ call' = NoCall
  /\ UNCHANGED <<self, catalog>>

TargetArgs == {NoTargets} \cup {Given(s) : s \in SeqsUpTo(Objects, MaxTargets)}

RepeatTargetArgs ==
  {NoTargets} \cup {Given(s) : s \in SeqsUpTo(Objects, RepeatMaxTargets)}

Next ==
  /\ \/ \E source \in Objects, targets \in TargetArgs :
          DoMakeVocabulary(source, targets)
     \/ DoGetSearchTerms
     \/ \E reference \in References, chain \in Chains :
          DoValidateConnected(reference, chain)
     \/ \E reference \in References, chain \in Chains :
          DoValidateDisconnected(reference, chain)
     \/ DoGetAllowedSourceTypes
     \/ DoGetAllowedTargetTypes
     \/ Return
  /\ UNCHANGED <<first, later>>

Remember ==
  /\ first' = IF first.op = "none" /\ call.op = "none" THEN call' ELSE first
  /\ later' = (later \/ (first.op # "none" /\ call.op = "none"))

NextRepeat ==
  /\ \/ \E source \in Objects, targets \in RepeatTargetArgs :
          DoMakeVocabulary(source, targets)
     \/ DoGetSearchTerms
     \/ \E reference \in References, chain \in Chains :
          DoValidateConnected(reference, chain)
     \/ \E reference \in References, chain \in Chains :
          DoValidateDisconnected(reference, chain)
     \/ DoGetAllowedSourceTypes
     \/ DoGetAllowedTargetTypes
     \/ Return
  /\ Remember

Spec == Init /\ [][Next]_vars

SpecRepeat == InitRepeat /\ [][NextRepeat]_vars

TypeOK ==
  /\ self \in Configurations
  /\ call.op \in {"none", "makeVocabulary", "getSearchTerms", "validateConnected",
                  "validateDisconnected", "getAllowedSourceTypes",
                  "getAllowedTargetTypes"}

----------------------------------------------------------------------------
(* Vocabulary used by the properties *)

Range(list) == {list[i] : i \in 1..Len(list)}

\* a side passes iff its allow-list is empty or the kind is a member of it
SidePasses(list, kind) == list = <<>> \/ kind \in Range(list)

\* the allow-lists the inherited code works on
SourceList == IF self.class = "PortalTypeConstraint"
              THEN self.allowedSourceTypes ELSE getAllowedSourceTypes(self)

TargetList == IF self.class = "PortalTypeConstraint"
              THEN self.allowedTargetTypes ELSE getAllowedTargetTypes(self)

IsSourceFailure(e) ==
  /\ e.type = "ValidationException"
  /\ e.message[1] = "Source type "

IsTargetFailure(e) ==
  /\ e.type = "ValidationException"
  /\ e.message[1] = "Target type "

\* r is the subsequence of t, in t's order, of exactly the positions in keep
IsSubsequenceAt(r, t, keep) ==
  /\ Len(r) = Cardinality(keep)
  /\ \E f \in [1..Len(r) -> keep] :
       /\ \A i, j \in 1..Len(r) : i < j => f[i] < f[j]
       /\ \A i \in 1..Len(r) : r[i] = t[f[i]]

----------------------------------------------------------------------------
(* C1: validateConnected raises nothing exactly when the source side passes
   and the target side passes (a side passes iff its allow-list is empty or
   holds the reference's kind on that side); otherwise what it raises is a
   ValidationException.  With both lists empty it never fails. *)
C1_ValidateConnectedIffBothSidesPass ==
  call.op = "validateConnected" =>
    LET st == call.reference.sourceBrain.portal_type
        tt == call.reference.targetBrain.portal_type
    IN /\ (call.raised = <<>>) <=>
            (SidePasses(SourceList, st) /\ SidePasses(TargetList, tt))
       /\ \A i \in 1..Len(call.raised) :
            call.raised[i].type = "ValidationException"
       /\ (SourceList = <<>> /\ TargetList = <<>>) => call.raised = <<>>

\* a PortalTypeConstraint with both lists non-empty accepted a reference
C1_Witness ==
  /\ call.op = "validateConnected"
  /\ self.class = "PortalTypeConstraint"
  /\ self.allowedSourceTypes # <<>>
  /\ self.allowedTargetTypes # <<>>
  /\ call.raised = <<>>

(* C2: when the source kind is absent from a non-empty allowed-source list,
   validateConnected raises exactly one failure, the source one, whatever
   the target side says, and it carries the reference and chain passed in. *)
C2_SourceFailureWins ==
  (/\ call.op = "validateConnected"
   /\ SourceList # <<>>
   /\ call.reference.sourceBrain.portal_type \notin Range(SourceList)) =>
    /\ Len(call.raised) = 1
    /\ IsSourceFailure(call.raised[1])
    /\ ~IsTargetFailure(call.raised[1])
    /\ call.raised[1].message[2] = call.reference.sourceBrain.portal_type
    /\ call.raised[1].reference = call.reference
    /\ call.raised[1].chain = call.chain

\* both sides would be rejected, and the call was made with the second chain
C2_Witness ==
  /\ call.op = "validateConnected"
  /\ SourceList # <<>>
  /\ call.reference.sourceBrain.portal_type \notin Range(SourceList)
  /\ TargetList # <<>>
  /\ call.reference.targetBrain.portal_type \notin Range(TargetList)
  /\ call.chain = MaxChain
  /\ Len(call.raised) = 1

(* C3: for a source that is not disqualified and a supplied candidate
   sequence, makeVocabulary returns the subsequence of targets, in the
   original order and with duplicates kept, of exactly the elements whose
   kind is in the allowed-target list, or all of targets when that list is
   empty. *)
C3_FilterIsOrderedSubsequence ==
  (/\ call.op = "makeVocabulary"
   /\ call.targets.given
   /\ SidePasses(SourceList, call.source.portal_type)) =>
    LET t == call.targets.seq
        keep == {j \in 1..Len(t) : TargetList = <<>>
                                   \/ t[j].portal_type \in Range(TargetList)}
    IN /\ IsSubsequenceAt(call.returned, t, keep)
       /\ TargetList = <<>> => call.returned = t

\* a duplicated candidate is kept twice while another one is filtered out
C3_Witness ==
  /\ call.op = "makeVocabulary"
  /\ call.targets.given
  /\ SidePasses(SourceList, call.source.portal_type)
  /\ Len(call.targets.seq) = 3
  /\ call.targets.seq[1] = call.targets.seq[3]
  /\ call.returned = <<call.targets.seq[1], call.targets.seq[3]>>

(* C4: if the source's kind is not in a non-empty allowed-source list,
   makeVocabulary returns an empty sequence whatever targets is, supplied or
   not, and it issues no query to the catalog. *)
C4_DisqualifiedSourceGivesNothing ==
  (/\ call.op = "makeVocabulary"
   /\ SourceList # <<>>
   /\ call.source.portal_type \notin Range(SourceList)) =>
    /\ call.returned = <<>>
    /\ call.queries = <<>>

\* a disqualified source, no targets supplied, and a catalog that has objects
C4_Witness ==
  /\ call.op = "makeVocabulary"
  /\ SourceList # <<>>
  /\ call.source.portal_type \notin Range(SourceList)
  /\ ~call.targets.given
  /\ catalog # <<>>
  /\ call.returned = <<>>

(* C5: for an InterfaceConstraint, a non-empty capability list that the
   lookup resolves to zero kinds rejects every candidate on that side, for
   every kind an object may carry: on the source side makeVocabulary returns
   nothing and validateConnected fails; on the target side the filter path
   returns nothing and validateConnected fails when the source passes. *)
C5_ZeroKindsRejectsEverything ==
  self.class = "InterfaceConstraint" =>
    LET asi == self.allowedSourceInterfaces
        ati == self.allowedTargetInterfaces
        sourceDead == asi # <<>> /\ getPortalTypesByInterfaces(asi) = <<>>
        targetDead == ati # <<>> /\ getPortalTypesByInterfaces(ati) = <<>>
    IN /\ (sourceDead /\ call.op = "makeVocabulary") => call.returned = <<>>
       /\ (sourceDead /\ call.op = "validateConnected") => call.raised # <<>>
       /\ (targetDead /\ call.op = "makeVocabulary" /\ call.targets.given)
            => call.returned = <<>>
       /\ (targetDead /\ call.op = "validateConnected"
           /\ SidePasses(SourceList, call.reference.sourceBrain.portal_type))
            => call.raised # <<>>

(* C6: InterfaceConstraint.getAllowedSourceTypes / getAllowedTargetTypes
   return the empty list exactly when the capability list of that side is
   empty, without calling the lookup; otherwise they return the lookup's
   kinds followed by the sentinel, a non-empty list. *)
C6_ResolvedListShape ==
  (/\ self.class = "InterfaceConstraint"
   /\ call.op \in {"getAllowedSourceTypes", "getAllowedTargetTypes"}) =>
    LET configured == IF call.op = "getAllowedSourceTypes"
                      THEN self.allowedSourceInterfaces
                      ELSE self.allowedTargetInterfaces
    IN /\ (call.returned = <<>>) <=> (configured = <<>>)
       /\ configured = <<>> => call.lookups = <<>>
       /\ configured # <<>> =>
            /\ call.lookups = <<configured>>
            /\ call.returned =
                 getPortalTypesByInterfaces(configured) \o <<Sentinel>>
            /\ Len(call.returned) > 0

\* a capability list that resolves to no kind still gives a non-empty list
C6_Witness ==
  /\ self.class = "InterfaceConstraint"
  /\ call.op = "getAllowedSourceTypes"
  /\ self.allowedSourceInterfaces # <<>>
  /\ getPortalTypesByInterfaces(self.allowedSourceInterfaces) = <<>>
  /\ call.returned = <<Sentinel>>

(* C7: with targets not supplied and a source that is not disqualified,
   makeVocabulary issues exactly one catalog query, with terms
   {portal_type: allowed-target list} when that list is non-empty and no
   terms when it is empty, and returns one summary per hit in the order of
   the search result; an empty result gives an empty sequence, no error. *)
C7_SearchPath ==
  (/\ call.op = "makeVocabulary"
   /\ ~call.targets.given
   /\ SidePasses(SourceList, call.source.portal_type)) =>
    /\ Len(call.queries) = 1
    /\ call.queries[1] = (IF TargetList # <<>>
                          THEN {<<"portal_type", TargetList>>} ELSE {})
    /\ LET hits == uc(catalog, call.queries[1])
       IN /\ Len(call.returned) = Len(hits)
          /\ \A i \in 1..Len(hits) :
               /\ call.returned[i].aggregate
               /\ call.returned[i].UID = hits[i].UID
               /\ call.returned[i].portal_type = hits[i].portal_type
    /\ call.raised = <<>>

\* a restricted search that hit two objects
C7_Witness ==
  /\ call.op = "makeVocabulary"
  /\ ~call.targets.given
  /\ TargetList # <<>>
  /\ Len(call.queries) = 1
  /\ Len(call.returned) = 2
  /\ Len(catalog) = 2

\* an unrestricted search over an empty catalog
C7_WitnessEmpty ==
  /\ call.op = "makeVocabulary"
  /\ ~call.targets.given
  /\ call.queries = <<{}>>
  /\ call.returned = <<>>

(* C8: validateDisconnected never fails, whatever the configuration and the
   reference, for both classes; it raises nothing and changes no state. *)
C8_ValidateDisconnectedNeverFails ==
  [][call'.op = "validateDisconnected" =>
       /\ call'.raised = <<>>
       /\ self' = self
       /\ catalog' = catalog]_vars

\* validateDisconnected accepted a reference that validateConnected rejects
C8_Witness ==
  /\ call.op = "validateDisconnected"
  /\ call.raised = <<>>
  /\ validateConnected(self, call.reference, call.chain) # <<>>

\* the same request as the first one of the behaviour
SameRequest(a, b) ==
  /\ a.op = b.op
  /\ a.source = b.source
  /\ a.targets = b.targets
  /\ a.reference = b.reference
  /\ a.chain = b.chain

SameOutcome(a, b) ==
  /\ a.returned = b.returned
  /\ a.terms = b.terms
  /\ a.raised = b.raised
  /\ a.queries = b.queries
  /\ a.lookups = b.lookups

(* C9: no state persists across calls: every call leaves the configured
   lists unchanged, an InterfaceConstraint resolves its lists afresh to the
   lookup's kinds plus exactly one sentinel, and a later call with the
   arguments of the first call has the outcome the first call had. *)
C9_NoStatePersists ==
  [][/\ self' = self
     /\ (call'.op = "getAllowedSourceTypes" /\ self.allowedSourceInterfaces # <<>>)
          => call'.returned =
               getPortalTypesByInterfaces(self.allowedSourceInterfaces)
                 \o <<Sentinel>>
     /\ (call'.op = "getAllowedTargetTypes" /\ self.allowedTargetInterfaces # <<>>)
          => call'.returned =
               getPortalTypesByInterfaces(self.allowedTargetInterfaces)
                 \o <<Sentinel>>
     /\ (later' /\ call'.op # "none" /\ SameRequest(first', call'))
          => SameOutcome(first', call')]_vars

\* a later call repeats the first one: an InterfaceConstraint resolves its
\* source list again and gets the list it got the first time
C9_Witness ==
  /\ later
  /\ self.class = "InterfaceConstraint"
  /\ self.allowedSourceInterfaces # <<>>
  /\ first.op = "getAllowedSourceTypes"
  /\ call.op = "getAllowedSourceTypes"
  /\ call.returned = first.returned
  /\ Len(call.returned) > 1

(* C10: vocabulary and validation agree: an element t of the supplied
   targets appears in makeVocabulary(s, targets) iff validateConnected
   succeeds on a reference from the kind of s to the kind of t. *)
C10_VocabularyAgreesWithValidation ==
  (call.op = "makeVocabulary" /\ call.targets.given) =>
    \A j \in 1..Len(call.targets.seq), chain \in Chains :
      (call.targets.seq[j] \in Range(call.returned)) <=>
        (validateConnected(self,
           [sourceBrain |-> call.source, targetBrain |-> call.targets.seq[j]],
           chain) = <<>>)

\* one candidate is offered and valid, another is neither
C10_Witness ==
  /\ call.op = "makeVocabulary"
  /\ call.targets.given
  /\ Len(call.targets.seq) = 2
  /\ Len(call.returned) = 1
  /\ call.returned[1] = call.targets.seq[2]
  /\ call.targets.seq[1] # call.targets.seq[2]
====
